---- MODULE Spec2Model ----
(***************************************************************************)
(* Grid search over a hyperparameter sweep: grid_search_next_runs          *)
(* (src/grid_search.py) and the older grid_search_next_run                 *)
(* (src/sweeps/grid_search.py), with the caller's loop that records the    *)
(* suggested runs in the run history.                                      *)
(***************************************************************************)
EXTENDS Integers, Sequences, FiniteSets, TLC

VARIABLES sweep_config, runs, call, result, suggested

vars == <<sweep_config, runs, call, result, suggested>>

(***************************************************************************)
(* Bounds of the model.                                                    *)
(***************************************************************************)
\* largest number of runs a call asks for (the argument n)
MaxCount == 4
\* longest run history the caller starts with
MaxHistory == 1

(***************************************************************************)
(* Python values: a scalar, a list or a tuple; lists and tuples nest.      *)
(* Two values are equal (Python ==) iff the records are equal: a list is   *)
(* never equal to a tuple.                                                 *)
(***************************************************************************)
Scalar(x) == [shape |-> "scalar", atom |-> x, elems |-> <<>>]
List(s) == [shape |-> "list", atom |-> 0, elems |-> s]
Tuple(s) == [shape |-> "tuple", atom |-> 0, elems |-> s]

Range(s) == {s[i] : i \in 1..Len(s)}

\* hash(obj): defined for scalars and for tuples of hashable values only
RECURSIVE Hashable(_)
Hashable(obj) ==
    CASE obj.shape = "scalar" -> TRUE
      [] obj.shape = "list" -> FALSE
      [] OTHER -> \A i \in 1..Len(obj.elems) : Hashable(obj.elems[i])

RECURSIVE list_to_tuple(_)
list_to_tuple(obj) ==
    IF obj.shape = "list"
    THEN Tuple([i \in 1..Len(obj.elems) |-> list_to_tuple(obj.elems[i])])
    ELSE obj

RECURSIVE tuple_to_list(_)
tuple_to_list(obj) ==
    IF obj.shape = "tuple"
    THEN List([i \in 1..Len(obj.elems) |-> tuple_to_list(obj.elems[i])])
    ELSE obj

(***************************************************************************)
(* Parameters, as HyperParameterSet.from_config yields them.               *)
(***************************************************************************)
CATEGORICAL == "categorical"
CONSTANT_TYPE == "constant"
INT_UNIFORM == "int_uniform"

Categorical(nm, vals) ==
    [name |-> nm, type |-> CATEGORICAL, values |-> vals, value |-> Scalar(0)]
Constant(nm, v) ==
    [name |-> nm, type |-> CONSTANT_TYPE, values |-> <<>>, value |-> v]
MinMax(nm) ==
    [name |-> nm, type |-> INT_UNIFORM, values |-> <<>>, value |-> Scalar(0)]

\* a config is a dict, kept as its items in insertion order
Keys(config) == {config[i].name : i \in 1..Len(config)}
Get(config, nm) == (CHOOSE e \in Range(config) : e.name = nm).value

\* dict.update
Update(config, other) ==
    LET Kept(e) == e.name \notin Keys(other)
    IN SelectSeq(config, Kept) \o other

\* HyperParameterSet.to_config of parameters whose value is bound
to_config(params) ==
    [i \in 1..Len(params) |-> [name |-> params[i].name, value |-> params[i].value]]

\* an element of a result: a SweepRun, or None
SweepRun(config) == [none |-> FALSE, config |-> config]
None == [none |-> TRUE, config |-> <<>>]

(***************************************************************************)
(* Outcomes of a call: a returned value, or the exception raised.          *)
(***************************************************************************)
Return(v) == [status |-> "ok", detail |-> "", value |-> v]
Raise(exc, what) == [status |-> exc, detail |-> what, value |-> <<>>]

\* the key the config lacks when it has no "method" entry
NoMethod == "<absent>"

\* itertools.product of a sequence of sequences, as a set of tuples
RECURSIVE product(_)
product(seqs) ==
    IF seqs = <<>> THEN {<<>>}
    ELSE {<<x>> \o t : x \in Range(Head(seqs)), t \in product(Tail(seqs))}

\* a faulty variant: the front element is read and never popped
Orders_nopop(S, k) ==
    IF k = 0 \/ S = {} THEN {<<>>} ELSE {[i \in 1..k |-> x] : x \in S}

\* the orders in which k elements can be drawn from the front of a list made
\* of the set S: iteration order of a set is not fixed, nor is a shuffle
RECURSIVE Orders(_, _)
Orders(S, k) ==
    IF k = 0 \/ S = {} THEN {<<>>}
    ELSE UNION {{<<x>> \o t : t \in Orders(S \ {x}, k - 1)} : x \in S}

Min(a, b) == IF a <= b THEN a ELSE b

\* the parameters of a type grid search cannot use, in the set's order
Disallowed(params) ==
    LET Bad(p) == p.type # CATEGORICAL /\ p.type # CONSTANT_TYPE
    IN SelectSeq(params, Bad)

discrete_params(params) ==
    LET IsCat(p) == p.type = CATEGORICAL IN SelectSeq(params, IsCat)

constant_params(params) ==
    LET IsConst(p) == p.type = CONSTANT_TYPE IN SelectSeq(params, IsConst)

param_names(discrete) == [i \in 1..Len(discrete) |-> discrete[i].name]

\* list_to_tuple(p.config["values"]): the list of candidates becomes a tuple
\* of canonical candidates
param_values(discrete) ==
    [i \in 1..Len(discrete) |->
        [j \in 1..Len(discrete[i].values) |-> list_to_tuple(discrete[i].values[j])]]

all_param_values(discrete) == product(param_values(discrete))

\* the tuple one run contributes to param_values_seen: the names the run's
\* config has, in the order of param_names
SeenTuple(run_config, names) ==
    LET Has(nm) == nm \in Keys(run_config)
        present == SelectSeq(names, Has)
    IN [i \in 1..Len(present) |-> list_to_tuple(Get(run_config, present[i]))]

param_values_seen(history, names) ==
    {SeenTuple(history[i].config, names) : i \in 1..Len(history)}

\* set(...) raises TypeError when an element cannot be hashed
Unhashable(tuples) ==
    \E t \in tuples : \E i \in 1..Len(t) : ~Hashable(t[i])

\* a faulty variant: no set difference, every grid point remains
remaining_params_all(history, discrete) == all_param_values(discrete)

remaining_params(history, discrete) ==
    all_param_values(discrete) \ param_values_seen(history, param_names(discrete))

\* a faulty variant: the constants are not merged into the run
Materialize_noconst(next_value, discrete, constants) ==
    SweepRun(to_config([i \in 1..Len(discrete) |->
        [discrete[i] EXCEPT !.value = tuple_to_list(next_value[i])]]))

\* one run: the values bound to the categorical parameters, then the
\* constants merged in
Materialize(next_value, discrete, constants) ==
    LET bound == [i \in 1..Len(discrete) |->
                    [discrete[i] EXCEPT !.value = tuple_to_list(next_value[i])]]
    IN SweepRun(Update(to_config(bound), to_config(constants)))

\* a faulty variant: None is appended only when nothing at all remains
Retval_late_none(order, n, n_remaining, discrete, constants) ==
    [i \in 1..Len(order) |-> Materialize(order[i], discrete, constants)]
        \o (IF n_remaining = 0 THEN <<None>> ELSE <<>>)

\* the returned list: the runs drawn, and None when n exceeds what remained
Retval(order, n, n_remaining, discrete, constants) ==
    [i \in 1..Len(order) |-> Materialize(order[i], discrete, constants)]
        \o (IF n > n_remaining THEN <<None>> ELSE <<>>)

\* sweep_config["method"] != "grid"
MethodCheck(config) ==
    IF config.method = NoMethod THEN {Raise("KeyError", "method")}
    ELSE IF config.method # "grid" THEN {Raise("ValueError", "method")}
    ELSE {}

\* a faulty variant: parameters of a disallowed type are skipped
TypeCheck_skip(params) == {}

\* the loop over params that rejects the first disallowed parameter
TypeCheck(params) ==
    IF Disallowed(params) # <<>>
    THEN {Raise("ValueError", Head(Disallowed(params)).name)}
    ELSE {}

\* SweepConfig(sweep_config): schema validation
Validate(config) ==
    IF config.wellformed THEN {} ELSE {Raise("ValidationError", "schema")}

\* the outcomes grid_search_next_runs can have
grid_search_next_runs(history, config, validate, n, randomize_order) ==
    LET discrete == discrete_params(config.parameters)
        constants == constant_params(config.parameters)
        remaining == remaining_params(history, discrete)
        n_remaining == Cardinality(remaining)
    IN  IF validate /\ Validate(config) # {} THEN Validate(config)
        ELSE IF MethodCheck(config) # {} THEN MethodCheck(config)
        ELSE IF ~config.has_parameters
            THEN {Raise("ValueError", "parameters")}
        ELSE IF TypeCheck(config.parameters) # {} THEN TypeCheck(config.parameters)
        ELSE IF Unhashable(all_param_values(discrete))
                \/ Unhashable(param_values_seen(history, param_names(discrete)))
            THEN {Raise("TypeError", "unhashable")}
        ELSE {Return(Retval(order, n, n_remaining, discrete, constants)) :
                order \in Orders(remaining, Min(n, n_remaining))}

\* the outcomes the older grid_search_next_run can have: it always validates,
\* does not look at the method, hashes the candidates and the runs' values as
\* they are, and returns one Run made of the categorical parameters, or None
grid_search_next_run(history, config, randomize_order) ==
    LET discrete == discrete_params(config.parameters)
        names == param_names(discrete)
        values == [i \in 1..Len(discrete) |-> discrete[i].values]
        all == product(values)
        lacking == {i \in 1..Len(history) : ~(Range(names) \subseteq Keys(history[i].config))}
        first == CHOOSE i \in lacking : \A j \in lacking : i <= j
        missing == CHOOSE k \in 1..Len(names) :
                      /\ names[k] \notin Keys(history[first].config)
                      /\ \A j \in 1..(k - 1) : names[j] \in Keys(history[first].config)
        seen == {[k \in 1..Len(names) |-> Get(history[i].config, names[k])] :
                    i \in 1..Len(history)}
        remaining == all \ seen
    IN  IF Validate(config) # {} THEN Validate(config)
        ELSE IF ~config.has_parameters
            THEN {Raise("ValueError", "parameters")}
        ELSE IF TypeCheck(config.parameters) # {} THEN TypeCheck(config.parameters)
        ELSE IF Unhashable(all) THEN {Raise("TypeError", "unhashable")}
        ELSE IF lacking # {} THEN {Raise("KeyError", names[missing])}
        ELSE IF Unhashable(seen) THEN {Raise("TypeError", "unhashable")}
        ELSE IF remaining = {} THEN {Return(None)}
        ELSE {Return(SweepRun([k \in 1..Len(names) |->
                        [name |-> names[k], value |-> order[1][k]]])) :
                order \in Orders(remaining, 1)}

(***************************************************************************)
(* The inputs: sweep configs and the run histories a caller starts with.   *)
(***************************************************************************)
Wrap(S) == {List(<<v>>) : v \in S} \cup {Tuple(<<v>>) : v \in S}

\* 1, 2, [1], (1,), [[1]], [(1,)], ([1],), ((1,),)
Values ==
    {Scalar(1), Scalar(2)} \cup Wrap({Scalar(1)}) \cup Wrap(Wrap({Scalar(1)}))

\* lists of one or two candidates; a candidate may be listed twice
Candidates == {<<v>> : v \in Values} \cup {<<v, w>> : v \in Values, w \in Values}

PlainCandidates == {<<Scalar(1)>>, <<Scalar(1), Scalar(2)>>}

GridConfig(params) ==
    [method |-> "grid", has_parameters |-> TRUE, wellformed |-> TRUE,
     parameters |-> params]

\* one categorical parameter of nested values, with or without a constant
NestedConfigs ==
    {GridConfig(<<Categorical("a", vs)>> \o extra) :
        vs \in Candidates, extra \in {<<>>, <<Constant("c", List(<<Scalar(7)>>))>>}}

\* scalar grids: {1,2} x {4,5} and its sub-grids, a config of constants only,
\* the docstring's a: [1, 2, 3], and a: [2, 1]
PlainConfigs ==
    {GridConfig(<<Categorical("a", vs)>> \o second \o extra) :
        vs \in PlainCandidates,
        second \in {<<>>, <<Categorical("b", <<Scalar(4), Scalar(5)>>)>>},
        extra \in {<<>>, <<Constant("c", Scalar(7))>>}}
    \cup {GridConfig(<<Constant("c", Scalar(7))>>),
          GridConfig(<<Categorical("a", <<Scalar(1), Scalar(2), Scalar(3)>>)>>),
          GridConfig(<<Categorical("a", <<Scalar(2), Scalar(1)>>)>>)}

\* configs with a parameter given as a min/max range
RejectedConfigs ==
    {GridConfig(ps) : ps \in {
        <<MinMax("r")>>,
        <<Categorical("a", <<Scalar(1), Scalar(2)>>), MinMax("r")>>,
        <<MinMax("r"), Categorical("a", <<Scalar(1), Scalar(2)>>), MinMax("s")>>,
        <<Constant("c", Scalar(7)), MinMax("s"), MinMax("r")>>}}

\* configs with another method, no method, no parameters section, or a
\* description the schema rejects
BrokenConfigs ==
    LET base == {GridConfig(<<Categorical("a", <<Scalar(1), Scalar(2)>>)>>),
                 GridConfig(<<Categorical("a", <<Scalar(1)>>), Constant("c", Scalar(7))>>),
                 GridConfig(<<Categorical("a", <<Scalar(1), Scalar(2)>>), MinMax("r")>>)}
    IN  {[c EXCEPT !.method = m] : c \in base, m \in {"random", NoMethod}}
        \cup {[c EXCEPT !.has_parameters = FALSE, !.parameters = <<>>] : c \in base}
        \cup {[c EXCEPT !.wellformed = FALSE, !.method = m] :
                c \in base, m \in {"grid", "random"}}

Configs == NestedConfigs \cup PlainConfigs \cup RejectedConfigs \cup BrokenConfigs

\* a run whose config gives the named parameters these values
RunOf(names, vals) ==
    SweepRun([k \in 1..Len(names) |-> [name |-> names[k], value |-> vals[k]]])

\* runs a caller may hold for a config: each grid point as declared, in
\* tuple shape and in list shape, each point without its last key, and a
\* run off the grid
ObservedRuns(config) ==
    LET discrete == discrete_params(config.parameters)
        names == param_names(discrete)
        points == product([i \in 1..Len(discrete) |-> discrete[i].values])
        Shaped(p, f(_)) == [k \in 1..Len(p) |-> f(p[k])]
        Asis(v) == v
        ToList(v) == tuple_to_list(list_to_tuple(v))
    IN  {RunOf(names, p) : p \in points}
        \cup {RunOf(names, Shaped(p, list_to_tuple)) : p \in points}
        \cup {RunOf(names, Shaped(p, ToList)) : p \in points}
        \cup {RunOf(SubSeq(names, 1, Len(names) - 1), p) : p \in points}
        \cup {RunOf(<<"a">>, <<Scalar(9)>>)}

RECURSIVE SeqsUpTo(_, _)
SeqsUpTo(S, k) ==
    IF k = 0 THEN {<<>>}
    ELSE SeqsUpTo(S, k - 1)
            \cup {Append(h, r) : h \in {x \in SeqsUpTo(S, k - 1) : Len(x) = k - 1}, r \in S}

Histories(config) == SeqsUpTo(ObservedRuns(config), MaxHistory)

(***************************************************************************)
(* The caller: it calls one of the two functions on its history, and adds  *)
(* the runs it was given to the history before it calls again.             *)
(***************************************************************************)
Idle == [op |-> "idle", n |-> 0, randomize_order |-> FALSE]
NoResult == [status |-> "none", detail |-> "", value |-> <<>>]

Init ==
    /\ sweep_config \in Configs
    /\ runs \in Histories(sweep_config)
    /\ call = Idle
    /\ result = NoResult
    /\ suggested = <<>>

NextRuns(validate, n, randomize_order) ==
    /\ call.op = "idle"
    /\ call' = [op |-> "next_runs", n |-> n, randomize_order |-> randomize_order]
    /\ result' \in grid_search_next_runs(runs, sweep_config, validate, n, randomize_order)
    /\ UNCHANGED <<sweep_config, runs, suggested>>

NextRun(randomize_order) ==
    /\ call.op = "idle"
    /\ call' = [op |-> "next_run", n |-> 1, randomize_order |-> randomize_order]
    /\ result' \in grid_search_next_run(runs, sweep_config, randomize_order)
    /\ UNCHANGED <<sweep_config, runs, suggested>>

\* the SweepRuns of a returned list, None left out
RunsOf(value) == LET IsRun(x) == ~x.none IN SelectSeq(value, IsRun)

\* the caller adds every run it was given to the history, and logs the batch
Record ==
    /\ call.op = "next_runs"
    /\ runs' = runs \o RunsOf(result.value)
    /\ suggested' = IF RunsOf(result.value) = <<>> THEN suggested
                     ELSE Append(suggested, RunsOf(result.value))
    /\ call' = Idle
    /\ result' = NoResult
    /\ UNCHANGED sweep_config

SweepNext ==
    \/ \E validate \in BOOLEAN, n \in 1..MaxCount, randomize_order \in BOOLEAN :
          NextRuns(validate, n, randomize_order)
    \/ Record

Next ==
    \/ \E validate \in BOOLEAN, n \in 1..MaxCount, randomize_order \in BOOLEAN :
          NextRuns(validate, n, randomize_order)
    \/ \E randomize_order \in BOOLEAN : NextRun(randomize_order)
    \/ Record

Spec == Init /\ [][Next]_vars

\* the sweep loop alone: a caller that starts with no history and keeps
\* calling next_runs and recording what it returns
SweepConfigs ==
    PlainConfigs \cup RejectedConfigs \cup BrokenConfigs
        \cup {c \in NestedConfigs : Len(c.parameters[1].values) = 1}

SweepInit ==
    /\ sweep_config \in SweepConfigs
    /\ runs = <<>>
    /\ call = Idle
    /\ result = NoResult
    /\ suggested = <<>>

FairSpec == SweepInit /\ [][SweepNext]_vars /\ WF_vars(SweepNext)

(***************************************************************************)
(* Vocabulary of the properties.                                           *)
(***************************************************************************)
Params == sweep_config.parameters
CatParams == discrete_params(Params)
ConstParams == constant_params(Params)
CatNames == param_names(CatParams)

\* next_runs has returned a list
Returned == call.op = "next_runs" /\ result.status = "ok"
\* the runs in the list next_runs returned
ReturnedRuns == IF Returned THEN RunsOf(result.value) ELSE <<>>

\* the grid: the points of the Cartesian product of the candidate lists, each
\* candidate in canonical form
Universe == product([i \in 1..Len(CatParams) |->
                [j \in 1..Len(CatParams[i].values) |-> list_to_tuple(CatParams[i].values[j])]])

\* the canonical categorical assignment of a run that has every categorical key
HasAllKeys(run) == Range(CatNames) \subseteq Keys(run.config)
Point(run) == [k \in 1..Len(CatNames) |-> list_to_tuple(Get(run.config, CatNames[k]))]

\* the grid points no run of the history covers
Unseen == {p \in Universe : ~\E i \in 1..Len(runs) : HasAllKeys(runs[i]) /\ Point(runs[i]) = p}

Distinct(s) == \A i, j \in 1..Len(s) : i # j => s[i] # s[j]
Points(s) == [i \in 1..Len(s) |-> Point(s[i])]

RECURSIVE Product(_)
Product(counts) == IF counts = <<>> THEN 1 ELSE Head(counts) * Product(Tail(counts))

\* c1..ck as the lengths of the candidate lists, and as the numbers of
\* candidates that differ in canonical form
DeclaredCounts == [i \in 1..Len(CatParams) |-> Len(CatParams[i].values)]
DistinctCounts == [i \in 1..Len(CatParams) |->
    Cardinality({list_to_tuple(CatParams[i].values[j]) : j \in 1..Len(CatParams[i].values)})]

(***************************************************************************)
(* C1                                                                      *)
(***************************************************************************)
\* what C1 asks of a returned list: exactly count runs, no None, pairwise
\* distinct, every point of the Cartesian product among them
Complete ==
    /\ Len(result.value) = call.n
    /\ \A i \in 1..Len(result.value) : ~result.value[i].none
    /\ Distinct(Points(ReturnedRuns))
    /\ Range(Points(ReturnedRuns)) = Universe

\* C1 as stated: with an empty history and count the product of the lengths
\* of the candidate lists, next_runs returns exactly count pairwise distinct
\* runs that cover the Cartesian product, and no None.
C1_CompleteDeclared ==
    (Returned /\ runs = <<>> /\ call.n = Product(DeclaredCounts)) => Complete

\* C1: with an empty history and count the product, over the categorical
\* parameters, of the number of candidates that differ in canonical form,
\* next_runs returns exactly count pairwise distinct runs that cover every
\* point of the Cartesian product of the candidate lists, and no None.
C1_Complete ==
    (Returned /\ runs = <<>> /\ call.n = Product(DistinctCounts)) => Complete

C1_Witness ==
    /\ Returned /\ runs = <<>> /\ call.n = Product(DistinctCounts)
    /\ Len(CatParams) = 2 /\ call.n = 4

(***************************************************************************)
(* C2                                                                      *)
(***************************************************************************)
RECURSIVE Flatten(_)
Flatten(batches) == IF batches = <<>> THEN <<>> ELSE Head(batches) \o Flatten(Tail(batches))

\* every run next_runs has handed out so far, the list just returned included
HandedOut == Flatten(suggested) \o ReturnedRuns

\* no grid point has been suggested twice
NoRepeat == Distinct(Points(HandedOut))

\* a call made after every grid point was handed out returns None alone
ExhaustedThenSentinel ==
    (Returned /\ Range(Points(Flatten(suggested))) = Universe) => result.value = <<None>>

SentinelOnly == Returned /\ result.value = <<None>>

\* the config passes every check of next_runs and the history can be hashed
Callable ==
    \A o \in grid_search_next_runs(runs, sweep_config, TRUE, 1, FALSE) : o.status = "ok"

\* C2: over any sequence of next_runs calls (any count >= 1) in which the
\* caller adds every returned run to the history before the next call, no grid
\* point is suggested twice, a call made once every point has been returned
\* returns None and no run, and on a config next_runs accepts the None-only
\* result is reached after finitely many calls.
C2_Exhaustion ==
    /\ [](NoRepeat /\ ExhaustedThenSentinel)
    /\ (Callable => <>SentinelOnly)

\* the whole 2 x 2 grid was handed out over three calls or more, and the
\* call that followed returned None alone
C2_Witness ==
    /\ SentinelOnly
    /\ Len(suggested) >= 3
    /\ Range(Points(Flatten(suggested))) = Universe
    /\ Cardinality(Universe) = 4

(***************************************************************************)
(* C3                                                                      *)
(***************************************************************************)
\* the elements of a value at every depth, whatever the shapes: two values
\* are element-wise equal at every depth iff these are equal
RECURSIVE Elementwise(_)
Elementwise(obj) ==
    IF obj.shape = "scalar" THEN obj
    ELSE Tuple([i \in 1..Len(obj.elems) |-> Elementwise(obj.elems[i])])

SameAssignment(run, seen) ==
    /\ HasAllKeys(seen)
    /\ \A k \in 1..Len(CatNames) :
          Elementwise(Get(run.config, CatNames[k])) = Elementwise(Get(seen.config, CatNames[k]))

\* C3: whatever the shapes of the nested values (lists, tuples, tuples that
\* hold lists), a call of next_runs does not fail on hashing them, and no run
\* it returns has the categorical assignment of a run of the history.
C3_IdempotentDedup ==
    call.op = "next_runs" =>
        /\ result.status # "TypeError"
        /\ \A i \in 1..Len(ReturnedRuns), h \in 1..Len(runs) :
              ~SameAssignment(ReturnedRuns[i], runs[h])

(***************************************************************************)
(* C4                                                                      *)
(***************************************************************************)
\* C4: with R the number of grid points the history does not cover, the list
\* next_runs returns for count N starts with min(N, R) runs for pairwise
\* distinct uncovered points; it ends with exactly one None iff N > R, and
\* has exactly N runs and no None when N <= R.
C4_OverRequest ==
    Returned =>
        LET N == call.n
            R == Cardinality(Unseen)
            k == Min(N, R)
            value == result.value
        IN  /\ Len(value) = IF N > R THEN k + 1 ELSE N
            /\ \A i \in 1..k : ~value[i].none /\ Point(value[i]) \in Unseen
            /\ Distinct([i \in 1..k |-> Point(value[i])])
            /\ N > R => value[Len(value)] = None
            /\ \A i \in 1..Len(value) : value[i].none => (N > R /\ i = Len(value))

\* five of the points asked for do not remain: one run, then None
C4_Witness ==
    /\ Returned /\ call.n = 2 /\ Cardinality(Unseen) = 1 /\ Len(runs) >= 1
    /\ Len(result.value) = 2 /\ ~result.value[1].none /\ result.value[2] = None

(***************************************************************************)
(* C5                                                                      *)
(***************************************************************************)
Called == call.op # "idle"
Rejected == Disallowed(Params)
RejectedNames == {Rejected[i].name : i \in 1..Len(Rejected)}

\* C5 as stated, on the configs that are schema-valid and have a method: with
\* a parameter that is neither categorical nor constant, either function
\* fails with the configuration error that names such a parameter.
C5_RejectionNamesParameter ==
    (Called /\ Rejected # <<>> /\ sweep_config.wellformed /\ sweep_config.method # NoMethod)
        => (result.status = "ValueError" /\ result.detail \in RejectedNames)

\* C5: with a parameter that is neither categorical nor constant, next_runs
\* and next_run fail and return nothing, for every history and count and
\* however many other parameters are valid; when the checks made before
\* (schema, and for next_runs the method) pass, the failure is the
\* configuration error naming the first such parameter of the set.
C5_Rejection ==
    (Called /\ Rejected # <<>>) =>
        /\ result.status \notin {"ok", "none"}
        /\ result.value = <<>>
        /\ (sweep_config.wellformed /\ (call.op = "next_runs" => sweep_config.method = "grid"))
              => (result.status = "ValueError" /\ result.detail = Rejected[1].name)

\* two parameters are min/max ranges; the error names the first
C5_Witness ==
    /\ Called /\ Len(Rejected) = 2 /\ Len(CatParams) = 1
    /\ result.status = "ValueError" /\ result.detail = Rejected[1].name

(***************************************************************************)
(* C6                                                                      *)
(***************************************************************************)
\* C6: next_runs fails with the configuration error about the method when
\* the config has a method other than grid, and goes on as it does for
\* method grid when the config has no method or has method grid.
C6_MethodPrecondition ==
    (call.op = "next_runs" /\ sweep_config.wellformed) =>
        IF sweep_config.method \notin {"grid", NoMethod}
        THEN result.status = "ValueError" /\ result.detail = "method"
        ELSE result \in grid_search_next_runs(runs, [sweep_config EXCEPT !.method = "grid"],
                                              FALSE, call.n, call.randomize_order)

(***************************************************************************)
(* C7                                                                      *)
(***************************************************************************)
Entries(config, nm) == {i \in 1..Len(config) : config[i].name = nm}

\* C7: every run next_runs returns has every constant parameter with its
\* declared value, and exactly one value, one of the candidates, for every
\* categorical parameter.
C7_ConstantPassthrough ==
    \A i \in 1..Len(ReturnedRuns) :
        LET config == ReturnedRuns[i].config
        IN  /\ \A c \in 1..Len(ConstParams) :
                  /\ Cardinality(Entries(config, ConstParams[c].name)) = 1
                  /\ Get(config, ConstParams[c].name) = ConstParams[c].value
            /\ \A k \in 1..Len(CatParams) :
                  /\ Cardinality(Entries(config, CatParams[k].name)) = 1
                  /\ \E j \in 1..Len(CatParams[k].values) :
                        list_to_tuple(Get(config, CatParams[k].name))
                            = list_to_tuple(CatParams[k].values[j])

\* two runs were returned for a config with a constant and two categoricals
C7_Witness ==
    /\ Len(ReturnedRuns) >= 2 /\ Len(ConstParams) = 1 /\ Len(CatParams) = 2
    /\ Len(runs) >= 1

(***************************************************************************)
(* C8                                                                      *)
(***************************************************************************)
\* C8: the value a returned run has for a categorical parameter is one of
\* the declared candidates, in the shape it was declared with.
C8_RoundTrip ==
    \A i \in 1..Len(ReturnedRuns), k \in 1..Len(CatParams) :
        \E j \in 1..Len(CatParams[k].values) :
            Get(ReturnedRuns[i].config, CatParams[k].name) = CatParams[k].values[j]

(***************************************************************************)
(* C9                                                                      *)
(***************************************************************************)
\* C9: on a schema-valid grid config, with an empty history and count 1,
\* next_runs returns one run; without
\* randomize_order the run has the first declared candidate of every
\* categorical parameter, with randomize_order one of the declared candidates.
C9_FirstSuggestion ==
    (Returned /\ runs = <<>> /\ call.n = 1 /\ sweep_config.wellformed) =>
        /\ Len(result.value) = 1 /\ ~result.value[1].none
        /\ \A k \in 1..Len(CatParams) :
              LET carried == list_to_tuple(Get(result.value[1].config, CatParams[k].name))
              IN  IF call.randomize_order
                  THEN \E j \in 1..Len(CatParams[k].values) :
                          carried = list_to_tuple(CatParams[k].values[j])
                  ELSE carried = list_to_tuple(CatParams[k].values[1])

(***************************************************************************)
(* C10                                                                     *)
(***************************************************************************)
SameParameters(run, other) ==
    /\ Keys(run.config) = Keys(other.config)
    /\ \A nm \in Keys(run.config) :
          list_to_tuple(Get(run.config, nm)) = list_to_tuple(Get(other.config, nm))

\* C10: on a schema-valid config with method grid, whatever the history and
\* the constants, next_run returns None exactly when next_runs with count 1 returns
\* None alone, fails exactly when it fails, and otherwise returns a run that
\* next_runs can return too, with the same parameters, the constants included.
C10_CallShapeEquivalence ==
    (call.op = "next_run" /\ sweep_config.wellformed /\ sweep_config.method = "grid") =>
        LET nr == grid_search_next_runs(runs, sweep_config, FALSE, 1, call.randomize_order)
        IN  /\ (result.status # "ok") <=> (\A o \in nr : o.status # "ok")
            /\ result.status = "ok" =>
                  IF result.value = None THEN nr = {Return(<<None>>)}
                  ELSE \E o \in nr :
                          /\ o.status = "ok" /\ Len(o.value) = 1 /\ ~o.value[1].none
                          /\ SameParameters(result.value, o.value[1])

====
